---- MODULE Spec2Model ----
(***************************************************************************)
(* A model of the deepl client (package deepl): the translate option      *)
(* functions over url.Values, the client constructor, the request built   *)
(* by every operation, the decoding of the transport's response and the   *)
(* typed Error.                                                           *)
(*                                                                         *)
(* Strings are TLA+ strings.  A byte stream (a response body, Error.Body) *)
(* is a sequence of chunks: each chunk is either one whitespace character *)
(* or a non-empty run of text that neither starts nor ends with           *)
(* whitespace; the stream's text is the concatenation of its chunks.      *)
(***************************************************************************)
EXTENDS Integers, Sequences, FiniteSets, TLC

VARIABLES
    client,     \* the Client struct built by New
    pc,         \* position of the one call: "idle", "sent", "got", "done", ...
    call,       \* the arguments of the call in progress
    request,    \* the *http.Request handed to the transport (in flight)
    response,   \* what the transport returned, and the bytes of the body so far
    result,     \* what the operation returned to its caller
    vals,       \* the url.Values bag while the option loop runs
    applied,    \* the options the loop has applied so far, in order
    invoked,    \* the transports the call in progress has invoked, in order
    glossary    \* the glossary of a codec round trip, once it is created

vars == <<client, pc, call, request, response, result, vals, applied, invoked, glossary>>

(***************************************************************************)
(* Bounds of the model.                                                    *)
(***************************************************************************)
MaxTexts == 2        \* longest list of source texts of one call
MaxOpts == 1         \* longest option list of one call of the client
MaxApplied == 2      \* longest option sequence applied to one bag
MaxResults == 2      \* longest translations list of one response
MaxClientOpts == 2   \* longest list of client options given to New
MaxNewOpts == 3      \* longest option list New applies one option at a time
MaxCalls == 2        \* number of calls in progress on one client at a time
MaxEntries == 2      \* longest entry list put through the glossary codec

SeqsUpTo(S, n) == UNION {[1..k -> S] : k \in 0..n}

(***************************************************************************)
(* Generic helpers.                                                        *)
(***************************************************************************)
RECURSIVE Concat(_)
\* The text of a sequence of strings: its elements concatenated.
Concat(s) == IF s = <<>> THEN "" ELSE Head(s) \o Concat(Tail(s))

RECURSIVE Join(_, _)
\* strings.Join(elems, sep)
Join(elems, sep) ==
    IF elems = <<>> THEN ""
    ELSE IF Len(elems) = 1 THEN elems[1]
    ELSE elems[1] \o sep \o Join(Tail(elems), sep)

(***************************************************************************)
(* url.Values: a map from parameter name to the list of its values.       *)
(***************************************************************************)
EmptyValues == [k \in {} |-> <<>>]

\* url.Values.Set: the key ends with exactly the one value.
Set(v, key, value) ==
    [k \in DOMAIN v \cup {key} |-> IF k = key THEN <<value>> ELSE v[k]]

\* url.Values.Add: the value is appended to the key's list.
Add(v, key, value) ==
    [k \in DOMAIN v \cup {key} |->
        IF k = key
        THEN (IF key \in DOMAIN v THEN Append(v[key], value) ELSE <<value>>)
        ELSE v[k]]

\* v[key]: every value of the key (nil when the key is absent).
Values(v, key) == IF key \in DOMAIN v THEN v[key] ELSE <<>>

\* url.Values.Get / Request.FormValue: the first value, "" when absent.
Get(v, key) == IF Values(v, key) = <<>> THEN "" ELSE Values(v, key)[1]

\* The parameter names of the wire protocol, in the byte order Encode sorts by.
KeyOrder ==
    << "auth_key", "context", "entries", "entries_format", "formality",
       "glossary_id", "ignore_tags", "name", "preserve_formatting",
       "show_billed_characters", "source_lang", "split_sentences",
       "tag_handling", "target_lang", "text" >>

RECURSIVE PairsOf(_, _)
PairsOf(key, values) ==
    IF values = <<>> THEN <<>>
    ELSE <<[key |-> key, value |-> Head(values)]>> \o PairsOf(key, Tail(values))

RECURSIVE EncodeFrom(_, _)
EncodeFrom(v, i) ==
    IF i > Len(KeyOrder) THEN <<>>
    ELSE PairsOf(KeyOrder[i], Values(v, KeyOrder[i])) \o EncodeFrom(v, i + 1)

\* url.Values.Encode: the form body, "key=value" pairs sorted by key, the
\* values of one key in their order.
Encode(v) == EncodeFrom(v, 1)

RECURSIVE ParseFrom(_, _)
ParseFrom(pairs, v) ==
    IF pairs = <<>> THEN v
    ELSE ParseFrom(Tail(pairs), Add(v, Head(pairs).key, Head(pairs).value))

\* Request.ParseForm on the receiving side: the pairs of the body, added in order.
ParseForm(body) == ParseFrom(body, EmptyValues)

(***************************************************************************)
(* Option value types.                                                     *)
(***************************************************************************)
\* The split value sent as it is given.
SplitSentenceValueRaw(split) == split

\* SplitSentence.Value
SplitSentenceValue(split) ==
    CASE split = "0" -> "0"
      [] split = "1" -> "1"
      [] split = "nonewlines" -> "nonewlines"
      [] OTHER -> "1"

\* SplitSentence.String
SplitSentenceString(split) == SplitSentenceValue(split)

\* Formal.Value
FormalValue(f) == f

\* The strategy's own name sent for every strategy.
TagHandlingStrategyValueName(f) == f

\* TagHandlingStrategy.Value
TagHandlingStrategyValue(f) == IF f = "default" THEN "" ELSE f

\* TagHandlingStrategy.String
TagHandlingStrategyString(f) == f

boolString(b) == IF b THEN "1" ELSE "0"

(***************************************************************************)
(* Translate options: each is a function over url.Values.                  *)
(***************************************************************************)
SourceLang(lang, v) == Set(v, "source_lang", lang)
\* ShowBilledChars with vals.Add in place of vals.Set.
ShowBilledCharsAdd(show, v) == Add(v, "show_billed_characters", boolString(show))

ShowBilledChars(show, v) == Set(v, "show_billed_characters", boolString(show))
SplitSentences(split, v) == Set(v, "split_sentences", SplitSentenceValue(split))
PreserveFormatting(preserve, v) == Set(v, "preserve_formatting", boolString(preserve))
Formality(formal, v) == Set(v, "formality", FormalValue(formal))
TagHandling(handling, v) == Set(v, "tag_handling", TagHandlingStrategyValue(handling))
IgnoreTags(tags, v) == Set(v, "ignore_tags", Join(tags, ","))
GlossaryID(glossaryID, v) == Set(v, "glossary_id", glossaryID)
Context(context, v) == Set(v, "context", context)

\* opt(vals): a TranslateOption value applied to the bag.
ApplyOption(o, v) ==
    CASE o.opt = "SourceLang" -> SourceLang(o.arg, v)
      [] o.opt = "ShowBilledChars" -> ShowBilledChars(o.arg, v)
      [] o.opt = "SplitSentences" -> SplitSentences(o.arg, v)
      [] o.opt = "PreserveFormatting" -> PreserveFormatting(o.arg, v)
      [] o.opt = "Formality" -> Formality(o.arg, v)
      [] o.opt = "TagHandling" -> TagHandling(o.arg, v)
      [] o.opt = "IgnoreTags" -> IgnoreTags(o.arg, v)
      [] o.opt = "GlossaryID" -> GlossaryID(o.arg, v)
      [] o.opt = "Context" -> Context(o.arg, v)

RECURSIVE ApplyOptions(_, _)
\* for _, opt := range opts { opt(vals) }
ApplyOptions(opts, v) ==
    IF opts = <<>> THEN v
    ELSE ApplyOptions(Tail(opts), ApplyOption(Head(opts), v))

RECURSIVE AddTextsOverwrite(_, _)
\* AddTexts with vals.Set in place of vals.Add: each text replaces the last.
AddTextsOverwrite(texts, v) ==
    IF texts = <<>> THEN v
    ELSE AddTextsOverwrite(Tail(texts), Set(v, "text", Head(texts)))

RECURSIVE AddTexts(_, _)
\* for _, text := range texts { vals.Add("text", text) }
AddTexts(texts, v) ==
    IF texts = <<>> THEN v
    ELSE AddTexts(Tail(texts), Add(v, "text", Head(texts)))

\* The bag of TranslateMany before the option loop.
SeedValues(texts, targetLang) ==
    AddTexts(texts, Set(EmptyValues, "target_lang", targetLang))

(***************************************************************************)
(* The client and its constructor.                                         *)
(***************************************************************************)
V2 == "https://api.deepl.com/v2"

\* BaseURL leaving the glossary endpoint as it was.
BaseURLStaleGlossary(url, c) ==
    [c EXCEPT !.baseURL = url,
              !.translateURL = url \o "/translate"]

\* BaseURL(url)(c)
BaseURL(url, c) ==
    [c EXCEPT !.baseURL = url,
              !.translateURL = url \o "/translate",
              !.glossaryURL = url \o "/glossaries"]

\* c.HTTPClient()
ClientHTTPClient(c) == c.client

\* HTTPClient(client)(c)
HTTPClient(cl, c) == [c EXCEPT !.client = cl]

ApplyClientOption(o, c) ==
    CASE o.opt = "BaseURL" -> BaseURL(o.arg, c)
      [] o.opt = "HTTPClient" -> HTTPClient(o.arg, c)

RECURSIVE ApplyClientOptions(_, _)
ApplyClientOptions(opts, c) ==
    IF opts = <<>> THEN c
    ELSE ApplyClientOptions(Tail(opts), ApplyClientOption(Head(opts), c))

\* New(authKey, opts...)
New(authKey, opts) ==
    ApplyClientOptions(opts,
        BaseURL(V2, [client |-> "http.DefaultClient", authKey |-> authKey,
                     baseURL |-> "", translateURL |-> "", glossaryURL |-> ""]))

(***************************************************************************)
(* Errors.  A Go error value is a record: the nil error, the typed Error,  *)
(* an errors.New / transport / decoder leaf, or an fmt.Errorf("...: %w")   *)
(* wrapper around another error.                                           *)
(***************************************************************************)
NilError == [kind |-> "nil"]

\* Error{Code: code, Body: body}
DeeplError(code, body) == [kind |-> "Error", Code |-> code, Body |-> body]

\* errors.New(msg) and the errors of the transport, the reader and the decoder
LeafError(kind, msg) == [kind |-> kind, msg |-> msg]

\* fmt.Errorf(msg + ": %w", err)
Errorf(msg, err) == [kind |-> "wrapError", msg |-> msg, err |-> err]

RECURSIVE ErrorsAs(_)
\* errors.As(err, &deeplError): the first typed Error of the chain, NilError
\* when the chain holds none.
ErrorsAs(err) ==
    IF err.kind = "Error" THEN err
    ELSE IF err.kind = "wrapError" THEN ErrorsAs(err.err)
    ELSE NilError

IsDeeplError(err) == ErrorsAs(err).kind = "Error"

\* http.StatusText, on the codes of the model ("" for a code it does not know).
StatusText(code) ==
    CASE code = 200 -> "OK"
      [] code = 201 -> "Created"
      [] code = 204 -> "No Content"
      [] code = 400 -> "Bad Request"
      [] code = 401 -> "Unauthorized"
      [] code = 403 -> "Forbidden"
      [] code = 404 -> "Not Found"
      [] code = 413 -> "Request Entity Too Large"
      [] code = 429 -> "Too Many Requests"
      [] code = 503 -> "Service Unavailable"
      [] OTHER -> ""

IsSpace(chunk) == chunk \in {" ", "\t", "\n", "\r"}

RECURSIVE TrimLeft(_)
TrimLeft(b) == IF b # <<>> /\ IsSpace(Head(b)) THEN TrimLeft(Tail(b)) ELSE b

RECURSIVE TrimRight(_)
TrimRight(b) ==
    IF b # <<>> /\ IsSpace(b[Len(b)]) THEN TrimRight(SubSeq(b, 1, Len(b) - 1)) ELSE b

\* strings.TrimSpace(string(body))
TrimSpace(b) == Concat(TrimRight(TrimLeft(b)))

QuotaMessage == "Quota exceeded. The character limit has been reached."

\* Error.Error() without the case of code 456.
ErrorTextNoQuota(err) ==
    IF Len(err.Body) > 0
    THEN "unexpected HTTP status " \o StatusText(err.Code)
             \o " (" \o TrimSpace(err.Body) \o ")"
    ELSE "unexpected HTTP status " \o StatusText(err.Code)

\* Error.Error() appending the body as it is, not trimmed.
ErrorTextUntrimmed(err) ==
    IF err.Code = 456 THEN QuotaMessage
    ELSE IF Len(err.Body) > 0
         THEN "unexpected HTTP status " \o StatusText(err.Code)
                  \o " (" \o Concat(err.Body) \o ")"
         ELSE "unexpected HTTP status " \o StatusText(err.Code)

\* Error.Error()
ErrorText(err) ==
    IF err.Code = 456 THEN QuotaMessage
    ELSE IF Len(err.Body) > 0
         THEN "unexpected HTTP status " \o StatusText(err.Code)
                  \o " (" \o TrimSpace(err.Body) \o ")"
         ELSE "unexpected HTTP status " \o StatusText(err.Code)

(***************************************************************************)
(* The values the remote service sends, and their JSON text.               *)
(***************************************************************************)
\* Translation (BilledCharacters is a pointer: <<>> is nil)
Translation(lang, text) ==
    [DetectedSourceLanguage |-> lang, Text |-> text, BilledCharacters |-> <<>>]

ZeroTranslation == Translation("", "")

TranslationValues == {Translation("EN", "Hallo Welt"), Translation("FR", "Hallo")}

\* Glossary
ZeroGlossary ==
    [GlossaryID |-> "", Name |-> "", Ready |-> FALSE, SourceLang |-> "",
     TargetLang |-> "", CreationTime |-> "0001-01-01T00:00:00Z", EntryCount |-> 0]

GlossaryValues ==
    {[GlossaryID |-> "g-1", Name |-> "terms", Ready |-> TRUE, SourceLang |-> "en",
      TargetLang |-> "de", CreationTime |-> "2021-08-03T14:16:18Z", EntryCount |-> 1]}

Itoa(n) == CASE n = 0 -> "0" [] n = 1 -> "1" [] n = 2 -> "2" [] OTHER -> "3"

\* The JSON object text of a Translation, as the service writes it.
EncodeTranslation(tr) ==
    "{\"detected_source_language\":\"" \o tr.DetectedSourceLanguage
        \o "\",\"text\":\"" \o tr.Text \o "\"}"

\* The JSON object text of a Glossary, as the service writes it.
EncodeGlossary(g) ==
    "{\"glossary_id\":\"" \o g.GlossaryID \o "\",\"name\":\"" \o g.Name
        \o "\",\"ready\":" \o (IF g.Ready THEN "true" ELSE "false")
        \o ",\"source_lang\":\"" \o g.SourceLang
        \o "\",\"target_lang\":\"" \o g.TargetLang
        \o "\",\"creation_time\":\"" \o g.CreationTime
        \o "\",\"entry_count\":" \o Itoa(g.EntryCount) \o "}"

ObjectTokens ==
    {EncodeTranslation(tr) : tr \in TranslationValues}
        \cup {EncodeGlossary(g) : g \in GlossaryValues}

\* A JSON object decoded into a Translation: the fields it names, zero otherwise.
AsTranslation(tok) ==
    IF \E tr \in TranslationValues : EncodeTranslation(tr) = tok
    THEN CHOOSE tr \in TranslationValues : EncodeTranslation(tr) = tok
    ELSE ZeroTranslation

\* A JSON object decoded into a Glossary: the fields it names, zero otherwise.
AsGlossary(tok) ==
    IF \E g \in GlossaryValues : EncodeGlossary(g) = tok
    THEN CHOOSE g \in GlossaryValues : EncodeGlossary(g) = tok
    ELSE ZeroGlossary

RECURSIVE EncodeElems(_)
EncodeElems(toks) ==
    IF toks = <<>> THEN <<>>
    ELSE IF Len(toks) = 1 THEN toks
    ELSE <<Head(toks), ",">> \o EncodeElems(Tail(toks))

\* The body {"<key>":[elem,...]} as chunks.
ListBody(key, toks) == <<"{", "\"" \o key \o "\":", "[">> \o EncodeElems(toks) \o <<"]", "}">>

ListKeys == {"\"translations\":", "\"glossaries\":"}

(***************************************************************************)
(* json.NewDecoder(body).Decode: the first JSON value of the stream.  The  *)
(* result names the error (nil on success), the list field the object      *)
(* holds ("" when none), that list's elements and, for an object written   *)
(* as one chunk, the chunk.  Whitespace between tokens is skipped; what     *)
(* follows the first value is not read.                                    *)
(***************************************************************************)
NotSpace(chunk) == ~IsSpace(chunk)

Decoded(err, key, elems, object) ==
    [err |-> err, key |-> key, elems |-> elems, object |-> object]

DecodeFail(msg) == Decoded(LeafError("json", msg), "", <<>>, "")

RECURSIVE ParseElems(_, _, _)
\* The elements of a JSON array after "[": state "first" expects an element or
\* "]", "elem" an element, "sep" a comma or "]".
ParseElems(s, acc, state) ==
    IF s = <<>> THEN [ok |-> FALSE, msg |-> "unexpected EOF", elems |-> acc, rest |-> s]
    ELSE IF Head(s) = "]" /\ state \in {"first", "sep"}
         THEN [ok |-> TRUE, msg |-> "", elems |-> acc, rest |-> Tail(s)]
    ELSE IF Head(s) = "," /\ state = "sep" THEN ParseElems(Tail(s), acc, "elem")
    ELSE IF Head(s) \in ObjectTokens /\ state \in {"first", "elem"}
         THEN ParseElems(Tail(s), Append(acc, Head(s)), "sep")
    ELSE [ok |-> FALSE, msg |-> "invalid character", elems |-> acc, rest |-> s]

\* The decoder has scanned all the bytes it was given and needs more: the
\* error of the failed read when the read failed, the end-of-input error
\* otherwise.
NeedMore(resp, msg) ==
    IF resp.BodyErr
    THEN Decoded(LeafError("read", "unexpected read error"), "", <<>>, "")
    ELSE DecodeFail(msg)

DecodeJSON(resp) ==
    LET s == SelectSeq(resp.Body, NotSpace) IN
    IF s = <<>> THEN NeedMore(resp, "EOF")
    ELSE IF s[1] \in ObjectTokens THEN Decoded(NilError, "", <<>>, s[1])
    ELSE IF s[1] # "{" THEN DecodeFail("invalid character")
    ELSE IF Len(s) < 2 THEN NeedMore(resp, "unexpected EOF")
    ELSE IF s[2] = "}" THEN Decoded(NilError, "", <<>>, "{}")
    ELSE IF s[2] \notin ListKeys THEN DecodeFail("invalid character")
    ELSE IF Len(s) < 3 THEN NeedMore(resp, "unexpected EOF")
    ELSE IF s[3] # "[" THEN DecodeFail("invalid character")
    ELSE LET r == ParseElems(SubSeq(s, 4, Len(s)), <<>>, "first") IN
         IF ~r.ok /\ r.rest = <<>> THEN NeedMore(resp, r.msg)
         ELSE IF ~r.ok THEN DecodeFail(r.msg)
         ELSE IF r.rest = <<>> THEN NeedMore(resp, "unexpected EOF")
         ELSE IF Head(r.rest) # "}" THEN DecodeFail("invalid character")
         ELSE Decoded(NilError, s[2], r.elems, "")

\* translateResponse.Translations after the decode
Translations(d) ==
    IF d.key = "\"translations\":"
    THEN [i \in 1..Len(d.elems) |-> AsTranslation(d.elems[i])]
    ELSE <<>>

\* The Glossaries field of ListGlossaries' response struct after the decode
Glossaries(d) ==
    IF d.key = "\"glossaries\":"
    THEN [i \in 1..Len(d.elems) |-> AsGlossary(d.elems[i])]
    ELSE <<>>

\* A Glossary struct after the decode
GlossaryOf(d) == IF d.object \in ObjectTokens THEN AsGlossary(d.object) ELSE ZeroGlossary

(***************************************************************************)
(* Requests and responses.                                                 *)
(***************************************************************************)
NoRequest == [method |-> "none"]
NoResponse == [err |-> [kind |-> "none"]]
NoResult == [err |-> [kind |-> "none"]]
NoCall == [op |-> "none"]
NoGlossary == [created |-> FALSE]

\* Glossary identifiers of the calls.
GlossaryIDs == {"g-1", "g-2"}

\* Base URLs url.Parse rejects in every URL built from them
\* (http.NewRequestWithContext then fails): no scheme before the colon.
InvalidBaseURLs == {":bad"}

ValidURL(url) ==
    \A bad \in InvalidBaseURLs :
        url \notin {bad \o "/translate", bad \o "/glossaries"}
            \cup {bad \o "/glossaries/" \o id \o suffix :
                    id \in GlossaryIDs, suffix \in {"", "/entries"}}

\* http.NewRequestWithContext(ctx, method, url, body)
NewRequest(method, url, body) ==
    IF ValidURL(url)
    THEN [err |-> NilError,
          req |-> [method |-> method, url |-> url, header |-> EmptyValues, body |-> body]]
    ELSE [err |-> LeafError("url", "missing protocol scheme"), req |-> NoRequest]

\* req.Header.Add(name, value)
HeaderAdd(req, name, value) == [req EXCEPT !.header = Add(req.header, name, value)]

\* A response of the transport: c.client.Do returned (resp, nil).
Response(status, body, bodyErr) ==
    [err |-> NilError, StatusCode |-> status, Body |-> body, BodyErr |-> bodyErr]

\* c.client.Do returned (nil, err).
TransportFailure == [err |-> LeafError("transport", "connection refused")]

\* The *http.Response as c.client.Do returns it: the status is known, no
\* byte of the body has been read.
Headers(status) == Response(status, <<>>, FALSE)

\* A result of an operation: the value (a list; <<>> for nil) and the error.
Result(value, err) == [value |-> value, err |-> err]

\* errorFromResp that leaves the body out, as TranslateMany does.
errorFromRespNoBody(r) ==
    IF r.BodyErr
    THEN Errorf("read response body", LeafError("read", "unexpected read error"))
    ELSE DeeplError(r.StatusCode, <<>>)

\* errorFromResp
errorFromResp(r) ==
    IF r.BodyErr
    THEN Errorf("read response body", LeafError("read", "unexpected read error"))
    ELSE DeeplError(r.StatusCode, r.Body)

(***************************************************************************)
(* TranslateMany and Translate.                                            *)
(***************************************************************************)
\* TranslateMany up to the call of the transport: the request, or the error
\* of building it.
\* The POST request TranslateMany builds from its bag of parameters.
PostForm(c, v) ==
    LET built == NewRequest("POST", c.translateURL, Encode(v))
    IN IF built.err.kind # "nil"
       THEN [err |-> Errorf("build request", built.err), req |-> NoRequest]
       ELSE [err |-> NilError,
             req |-> HeaderAdd(
                        HeaderAdd(built.req, "Authorization", "DeepL-Auth-Key " \o c.authKey),
                        "Content-Type", "application/x-www-form-urlencoded")]

TranslateManyRequest(c, texts, targetLang, opts) ==
    PostForm(c, ApplyOptions(opts, SeedValues(texts, targetLang)))

\* Translate calling TranslateMany without its options.
TranslateRequestNoOpts(c, text, targetLang, opts) ==
    TranslateManyRequest(c, <<text>>, targetLang, <<>>)

\* The request of Translate: that of TranslateMany for []string{text}.
TranslateRequest(c, text, targetLang, opts) ==
    TranslateManyRequest(c, <<text>>, targetLang, opts)

\* TranslateMany returning one translation per response, the first.
TranslateManyResultFirstOnly(resp) ==
    IF resp.err.kind # "nil" THEN Result(<<>>, Errorf("do request", resp.err))
    ELSE IF resp.StatusCode # 200 THEN Result(<<>>, DeeplError(resp.StatusCode, <<>>))
    ELSE LET d == DecodeJSON(resp) IN
         IF d.err.kind # "nil" THEN Result(<<>>, Errorf("decode deepl response", d.err))
         ELSE Result(IF Translations(d) = <<>> THEN <<>> ELSE <<Translations(d)[1]>>, NilError)

\* TranslateMany decoding the body before it looks at the status.
TranslateManyResultDecodeFirst(resp) ==
    IF resp.err.kind # "nil" THEN Result(<<>>, Errorf("do request", resp.err))
    ELSE LET d == DecodeJSON(resp) IN
         IF d.err.kind # "nil" THEN Result(<<>>, Errorf("decode deepl response", d.err))
         ELSE IF resp.StatusCode # 200 THEN Result(<<>>, DeeplError(resp.StatusCode, <<>>))
         ELSE Result(Translations(d), NilError)

\* TranslateMany from the return of the transport on.
TranslateManyResult(resp) ==
    IF resp.err.kind # "nil" THEN Result(<<>>, Errorf("do request", resp.err))
    ELSE IF resp.StatusCode # 200 THEN Result(<<>>, DeeplError(resp.StatusCode, <<>>))
    ELSE LET d == DecodeJSON(resp) IN
         IF d.err.kind # "nil" THEN Result(<<>>, Errorf("decode deepl response", d.err))
         ELSE Result(Translations(d), NilError)

\* What Translate returns: (text, language, error).
TranslateReturn(text, lang, err) == [text |-> text, lang |-> lang, err |-> err]

\* Translate without the check of an empty list: zero values and no error.
TranslateResultSilent(many) ==
    IF many.err.kind # "nil"
    THEN TranslateReturn("", "", Errorf("translate many", many.err))
    ELSE IF Len(many.value) = 0
    THEN TranslateReturn("", "", NilError)
    ELSE TranslateReturn(many.value[1].Text, many.value[1].DetectedSourceLanguage, NilError)

\* Translate taking the last translation in place of the first.
TranslateResultLast(many) ==
    IF many.err.kind # "nil"
    THEN TranslateReturn("", "", Errorf("translate many", many.err))
    ELSE IF Len(many.value) = 0
    THEN TranslateReturn("", "", LeafError("errorString", "deepl responded with no translations"))
    ELSE TranslateReturn(many.value[Len(many.value)].Text,
                         many.value[Len(many.value)].DetectedSourceLanguage, NilError)

\* Translate wrapping with %v in place of %w: the chain is cut.
TranslateResultFlat(many) ==
    IF many.err.kind # "nil"
    THEN TranslateReturn("", "", LeafError("errorString", "translate many"))
    ELSE IF Len(many.value) = 0
    THEN TranslateReturn("", "", LeafError("errorString", "deepl responded with no translations"))
    ELSE TranslateReturn(many.value[1].Text, many.value[1].DetectedSourceLanguage, NilError)

\* Translate, given what its call of TranslateMany returned.
TranslateResult(many) ==
    IF many.err.kind # "nil"
    THEN TranslateReturn("", "", Errorf("translate many", many.err))
    ELSE IF Len(many.value) = 0
    THEN TranslateReturn("", "", LeafError("errorString", "deepl responded with no translations"))
    ELSE TranslateReturn(many.value[1].Text, many.value[1].DetectedSourceLanguage, NilError)

(***************************************************************************)
(* The glossary operations.                                                *)
(***************************************************************************)
GlossaryEntry(source, target) == [Source |-> source, Target |-> target]

\* The encoder with the two fields of an entry in the wrong order.
EntriesTSVSwapped(entries) ==
    [i \in 1..Len(entries) |-> entries[i].Target \o "\t" \o entries[i].Source]

RECURSIVE EntriesTSV(_)
\* entriesTSV: one "source\ttarget" string per entry
EntriesTSV(entries) ==
    IF entries = <<>> THEN <<>>
    ELSE <<Head(entries).Source \o "\t" \o Head(entries).Target>>
             \o EntriesTSV(Tail(entries))

\* A GET or DELETE request with the Authorization header, or the build error.
AuthorizedRequest(c, method, url, accept) ==
    LET built == NewRequest(method, url, <<>>)
        authed == HeaderAdd(built.req, "Authorization", "DeepL-Auth-Key " \o c.authKey)
    IN IF built.err.kind # "nil"
       THEN [err |-> Errorf("build request", built.err), req |-> NoRequest]
       ELSE [err |-> NilError,
             req |-> IF accept = "" THEN authed ELSE HeaderAdd(authed, "Accept", accept)]

CreateGlossaryRequest(c, name, sourceLang, targetLang, entries) ==
    LET v == Set(Set(Set(Set(Set(EmptyValues, "name", name),
                                 "source_lang", sourceLang),
                             "target_lang", targetLang),
                         "entries_format", "tsv"),
                     "entries", Join(EntriesTSV(entries), "\n"))
        built == NewRequest("POST", c.glossaryURL, Encode(v))
    IN IF built.err.kind # "nil"
       THEN [err |-> Errorf("build request", built.err), req |-> NoRequest]
       ELSE [err |-> NilError,
             req |-> HeaderAdd(
                        HeaderAdd(built.req, "Content-Type", "application/x-www-form-urlencoded"),
                        "Authorization", "DeepL-Auth-Key " \o c.authKey)]

ListGlossariesRequest(c) == AuthorizedRequest(c, "GET", c.glossaryURL, "")

ListGlossaryRequest(c, glossaryID) ==
    AuthorizedRequest(c, "GET", c.glossaryURL \o "/" \o glossaryID, "")

ListGlossaryEntriesRequest(c, glossaryID) ==
    AuthorizedRequest(c, "GET", c.glossaryURL \o "/" \o glossaryID \o "/entries",
                      "text/tab-separated-values")

DeleteGlossaryRequest(c, glossaryID) ==
    AuthorizedRequest(c, "DELETE", c.glossaryURL \o "/" \o glossaryID, "")

\* CreateGlossary from the return of the transport on (a *Glossary is a list
\* of at most one Glossary).
\* CreateGlossary taking every 2xx status as success.
CreateGlossaryResultAny2xx(resp) ==
    IF resp.err.kind # "nil" THEN Result(<<>>, Errorf("do request", resp.err))
    ELSE IF resp.StatusCode \notin 200..299 THEN Result(<<>>, errorFromResp(resp))
    ELSE LET d == DecodeJSON(resp) IN
         IF d.err.kind # "nil" THEN Result(<<>>, Errorf("decode deepl response", d.err))
         ELSE Result(<<GlossaryOf(d)>>, NilError)

CreateGlossaryResult(resp) ==
    IF resp.err.kind # "nil" THEN Result(<<>>, Errorf("do request", resp.err))
    ELSE IF resp.StatusCode # 201 THEN Result(<<>>, errorFromResp(resp))
    ELSE LET d == DecodeJSON(resp) IN
         IF d.err.kind # "nil" THEN Result(<<>>, Errorf("decode deepl response", d.err))
         ELSE Result(<<GlossaryOf(d)>>, NilError)

ListGlossariesResult(resp) ==
    IF resp.err.kind # "nil" THEN Result(<<>>, Errorf("do request", resp.err))
    ELSE IF resp.StatusCode # 200 THEN Result(<<>>, errorFromResp(resp))
    ELSE LET d == DecodeJSON(resp) IN
         IF d.err.kind # "nil" THEN Result(<<>>, Errorf("decode deepl response", d.err))
         ELSE Result(Glossaries(d), NilError)

ListGlossaryResult(resp) ==
    IF resp.err.kind # "nil" THEN Result(<<>>, Errorf("do request", resp.err))
    ELSE IF resp.StatusCode # 200 THEN Result(<<>>, errorFromResp(resp))
    ELSE LET d == DecodeJSON(resp) IN
         IF d.err.kind # "nil" THEN Result(<<>>, Errorf("decode deepl response", d.err))
         ELSE Result(<<GlossaryOf(d)>>, NilError)

\* bufio.ScanLines: a trailing carriage return of a line is dropped.
DropCR(line) ==
    IF line # <<>> /\ line[Len(line)] = "\r" THEN SubSeq(line, 1, Len(line) - 1) ELSE line

RECURSIVE ScanLines(_, _)
\* The lines bufio.Scanner yields: split at "\n"; what follows the last "\n"
\* is a line when it is not empty.
ScanLines(rest, cur) ==
    IF rest = <<>> THEN (IF cur = <<>> THEN <<>> ELSE <<DropCR(cur)>>)
    ELSE IF Head(rest) = "\n" THEN <<DropCR(cur)>> \o ScanLines(Tail(rest), <<>>)
    ELSE ScanLines(Tail(rest), Append(cur, Head(rest)))

RECURSIVE SplitTab(_, _)
\* strings.Split(line, "\t"): the texts between the tabs (always at least one).
SplitTab(rest, cur) ==
    IF rest = <<>> THEN <<Concat(cur)>>
    ELSE IF Head(rest) = "\t" THEN <<Concat(cur)>> \o SplitTab(Tail(rest), <<>>)
    ELSE SplitTab(Tail(rest), Append(cur, Head(rest)))

RECURSIVE ScanEntriesPartial(_, _)
\* The decoding loop returning, with the error, the entries decoded so far.
ScanEntriesPartial(lines, entries) ==
    IF lines = <<>> THEN Result(entries, NilError)
    ELSE LET parts == SplitTab(Head(lines), <<>>) IN
         IF Len(parts) # 2
         THEN Result(entries, LeafError("errorString", "expected 2 tab-separated values"))
         ELSE ScanEntriesPartial(Tail(lines), Append(entries, GlossaryEntry(parts[1], parts[2])))

RECURSIVE ScanEntries(_, _)
\* The scanner loop of ListGlossaryEntries over the lines.
ScanEntries(lines, entries) ==
    IF lines = <<>> THEN Result(entries, NilError)
    ELSE LET parts == SplitTab(Head(lines), <<>>) IN
         IF Len(parts) # 2
         THEN Result(<<>>, LeafError("errorString", "expected 2 tab-separated values"))
         ELSE ScanEntries(Tail(lines), Append(entries, GlossaryEntry(parts[1], parts[2])))

ListGlossaryEntriesResult(resp) ==
    IF resp.err.kind # "nil" THEN Result(<<>>, Errorf("do request", resp.err))
    ELSE IF resp.StatusCode # 200 THEN Result(<<>>, errorFromResp(resp))
    ELSE LET scanned == ScanEntries(ScanLines(resp.Body, <<>>), <<>>) IN
         IF scanned.err.kind # "nil" THEN scanned
         ELSE IF resp.BodyErr THEN Result(<<>>, LeafError("read", "unexpected read error"))
         ELSE scanned

DeleteGlossaryResult(resp) ==
    IF resp.err.kind # "nil" THEN Result(<<>>, Errorf("do request", resp.err))
    ELSE IF resp.StatusCode # 204 THEN Result(<<>>, errorFromResp(resp))
    ELSE Result(<<>>, NilError)

(***************************************************************************)
(* The inputs of the model.                                                *)
(***************************************************************************)
AuthKeys == {"key-1", "key-2"}
Texts == {"Hello", "World"}
TextLists == SeqsUpTo(Texts, MaxTexts)
Languages == {"DE", "FR"}

Opt(name, arg) == [opt |-> name, arg |-> arg]

\* The recognized translate options, with the arguments the model draws.
OptionValues ==
    {Opt("SourceLang", "EN")}
        \cup {Opt("ShowBilledChars", b) : b \in BOOLEAN}
        \cup {Opt("SplitSentences", s) : s \in {"0", "1", "nonewlines", "", "2"}}
        \cup {Opt("PreserveFormatting", b) : b \in BOOLEAN}
        \cup {Opt("Formality", "less")}
        \cup {Opt("TagHandling", h) : h \in {"default", "xml", "html"}}
        \cup {Opt("IgnoreTags", t) : t \in {<<>>, <<"a", "b">>}}
        \cup {Opt("GlossaryID", "g-1")}
        \cup {Opt("Context", "ctx")}

\* The options the calls of the client draw their option lists from.
CallOptions ==
    {Opt("SourceLang", "EN"), Opt("ShowBilledChars", TRUE), Opt("TagHandling", "xml")}

OptionLists == SeqsUpTo(CallOptions, MaxOpts)

ClientOptionValues ==
    {Opt("BaseURL", "http://mock"), Opt("BaseURL", ":bad"),
     Opt("HTTPClient", "mockClient"), Opt("HTTPClient", "otherClient")}

Clients == {New(k, o) : k \in AuthKeys, o \in SeqsUpTo(ClientOptionValues, MaxClientOpts)}

EntryLists ==
    {<<>>, <<GlossaryEntry("hello", "hallo"), GlossaryEntry("world", "welt")>>}

Statuses == {200, 201, 204, 400, 401, 403, 404, 413, 429, 456, 503}

TranslationLists == SeqsUpTo(TranslationValues, MaxResults)

TranslationsBody(list) ==
    ListBody("translations", [i \in 1..Len(list) |-> EncodeTranslation(list[i])])

GlossaryToken == EncodeGlossary(CHOOSE g \in GlossaryValues : TRUE)

Bodies ==
    {TranslationsBody(l) : l \in TranslationLists}
        \cup { <<"{", "}">>, <<GlossaryToken>>, ListBody("glossaries", <<GlossaryToken>>) }
        \cup { <<>>, <<" ", "\n">>, <<" ", "Quota", " ", "Exceeded", "\n">> }
        \cup { <<"{">>, <<"{", "\"translations\":", "[", GlossaryToken>> }
        \cup { TranslationsBody(<<>>) \o <<"]">> }
        \cup { <<"hello", "\t", "hallo">>,
               <<"hello", "\t", "hallo", "\n", "world", "\t", "welt", "\n">>,
               <<"hello", "\t", "hallo", "\n", "\n", "world", "\t", "welt">>,
               <<"hello", "\t", "hallo", "\t", "hi">>,
               <<"hello", "\t", "hallo", "\n", "world">> }

\* The bytes a body delivers before a read of it fails.
FailingBodies ==
    { <<>>,
      <<"{", "\"translations\":", "[">>,
      TranslationsBody(<<>>),
      <<GlossaryToken>>,
      <<"hello", "\t", "hallo", "\n", "world", "\t", "welt">>,
      <<"hello", "\t", "hallo", "\n", "wor">> }

\* Every response of the transport, with what the reads of its body give.
Responses ==
    {TransportFailure}
        \cup {Response(st, b, FALSE) : st \in Statuses, b \in Bodies}
        \cup {Response(st, b, TRUE) : st \in Statuses, b \in FailingBodies}

(***************************************************************************)
(* The state machine: one client, one call at a time.  A call builds its   *)
(* request and hands it to the transport (pc = "sent"); the transport      *)
(* returns and the operation returns at once (pc = "done") or reads the    *)
(* body, one read at a time (pc = "got"), and then returns; the caller     *)
(* takes the result (pc = "idle").                                         *)
(***************************************************************************)
Init ==
    /\ client \in Clients
    /\ pc = "idle"
    /\ call = NoCall
    /\ request = NoRequest
    /\ response = NoResponse
    /\ result = NoResult
    /\ vals = EmptyValues
    /\ applied = <<>>
    /\ invoked = <<>>
    /\ glossary = NoGlossary

\* What is kept of a call once it has returned: the operation and, for the
\* translate operations, the source texts.
Returned(c) ==
    IF c.op \in {"TranslateMany", "Translate"}
    THEN [op |-> c.op, texts |-> c.texts]
    ELSE [op |-> c.op]

\* What an operation returns when its request cannot be built.
BuildFailure(op, err) ==
    IF op = "Translate" THEN TranslateResult(Result(<<>>, err)) ELSE Result(<<>>, err)

\* The transport always being the default one.
TransportDefault(c) == "http.DefaultClient"

\* The transport an operation hands its request to: c.client of c.client.Do.
Transport(c) == c.client

\* The first half of an operation: the request is built and sent, or the
\* operation returns the build error.
Start(args, built) ==
    /\ IF built.err.kind # "nil"
       THEN /\ pc' = "done"
            /\ call' = Returned(args)
            /\ request' = NoRequest
            /\ result' = BuildFailure(args.op, built.err)
            /\ invoked' = invoked
       ELSE /\ pc' = "sent"
            /\ call' = args
            /\ request' = built.req
            /\ result' = NoResult
            /\ invoked' = Append(invoked, Transport(client))
    /\ response' = NoResponse
    /\ UNCHANGED <<client, glossary, vals, applied>>

TranslateMany ==
    /\ pc = "idle"
    /\ \E texts \in TextLists, targetLang \in Languages, opts \in OptionLists :
        Start([op |-> "TranslateMany", texts |-> texts, targetLang |-> targetLang, opts |-> opts],
              TranslateManyRequest(client, texts, targetLang, opts))

Translate ==
    /\ pc = "idle"
    /\ \E text \in Texts, targetLang \in Languages, opts \in OptionLists :
        Start([op |-> "Translate", texts |-> <<text>>, targetLang |-> targetLang, opts |-> opts],
              TranslateRequest(client, text, targetLang, opts))

CreateGlossary ==
    /\ pc = "idle"
    /\ \E entries \in EntryLists :
        Start([op |-> "CreateGlossary", entries |-> entries],
              CreateGlossaryRequest(client, "terms", "en", "de", entries))

ListGlossaries ==
    /\ pc = "idle"
    /\ Start([op |-> "ListGlossaries"], ListGlossariesRequest(client))

ListGlossary ==
    /\ pc = "idle"
    /\ \E id \in GlossaryIDs :
        Start([op |-> "ListGlossary", glossaryID |-> id], ListGlossaryRequest(client, id))

ListGlossaryEntries ==
    /\ pc = "idle"
    /\ \E id \in GlossaryIDs :
        Start([op |-> "ListGlossaryEntries", glossaryID |-> id],
              ListGlossaryEntriesRequest(client, id))

DeleteGlossary ==
    /\ pc = "idle"
    /\ \E id \in GlossaryIDs :
        Start([op |-> "DeleteGlossary", glossaryID |-> id], DeleteGlossaryRequest(client, id))

\* The second half of the operation op, from what c.client.Do returned.
Finish(op, resp) ==
    CASE op = "TranslateMany" -> TranslateManyResult(resp)
      [] op = "Translate" -> TranslateResult(TranslateManyResult(resp))
      [] op = "CreateGlossary" -> CreateGlossaryResult(resp)
      [] op = "ListGlossaries" -> ListGlossariesResult(resp)
      [] op = "ListGlossary" -> ListGlossaryResult(resp)
      [] op = "ListGlossaryEntries" -> ListGlossaryEntriesResult(resp)
      [] op = "DeleteGlossary" -> DeleteGlossaryResult(resp)

\* The status the operation op takes as success.
SuccessStatus(op) ==
    CASE op = "CreateGlossary" -> 201
      [] op = "DeleteGlossary" -> 204
      [] OTHER -> 200

\* The operations that decode the body of a success as JSON.
JSONOps == {"TranslateMany", "Translate", "CreateGlossary", "ListGlossaries", "ListGlossary"}

\* Whether op reads the body of a response of this status: TranslateMany
\* reads the body of a 200 only, DeleteGlossary the body of a failure only.
ReadsBodyOf(op, status) ==
    CASE op \in {"TranslateMany", "Translate"} -> status = 200
      [] op = "DeleteGlossary" -> status # 204
      [] OTHER -> TRUE

\* a is the beginning of b.
IsPrefix(a, b) == Len(a) <= Len(b) /\ SubSeq(b, 1, Len(a)) = a

RECURSIVE CompleteLines(_)
\* The part of the bytes read that ends with the last "\n": the lines the
\* scanner yields before the body has ended.
CompleteLines(b) ==
    IF b = <<>> \/ b[Len(b)] = "\n" THEN b
    ELSE CompleteLines(SubSeq(b, 1, Len(b) - 1))

\* Whether the bytes read so far let op return before the body has ended:
\* ioutil.ReadAll reads to the end; the JSON decoder returns when it has a
\* complete value or a syntax error; the scanner loop returns at the first
\* line that has not two fields.
Settled(op, now) ==
    IF now.StatusCode # SuccessStatus(op) THEN FALSE
    ELSE IF op \in JSONOps
    THEN DecodeJSON(Response(now.StatusCode, now.Body, TRUE)).err.kind # "read"
    ELSE IF op = "ListGlossaryEntries"
    THEN ScanEntries(ScanLines(CompleteLines(now.Body), <<>>), <<>>).err.kind # "nil"
    ELSE FALSE

\* One read of the body when the response delivers full: the first k bytes
\* have arrived; at the end of the bytes the read gives the end of the body
\* or the error.  The operation returns or reads again.
AfterRead(op, full, k) ==
    LET ended == k = Len(full.Body)
        now == Response(full.StatusCode, SubSeq(full.Body, 1, k), ended /\ full.BodyErr)
    IN  [response |-> now, returns |-> ended \/ Settled(op, now)]

\* What one read can give after the bytes of sofar, from the responses of
\* the set: more bytes, or no byte and the end.
ReadOutcomes(op, sofar, responses) ==
    UNION { { AfterRead(op, full, k) :
                k \in { n \in Len(sofar.Body)..Len(full.Body) :
                          n = Len(sofar.Body) => n = Len(full.Body) } } :
            full \in { f \in responses :
                         /\ f.err.kind = "nil"
                         /\ f.StatusCode = sofar.StatusCode
                         /\ IsPrefix(sofar.Body, f.Body) } }

\* The operations of the client.
Operations == JSONOps \cup {"ListGlossaryEntries", "DeleteGlossary"}

\* The beginnings of the bodies of the responses.
Beginnings ==
    UNION { { SubSeq(f.Body, 1, k) : k \in 0..Len(f.Body) } :
            f \in { r \in Responses : r.err.kind = "nil" } }

\* What one read can give, for every operation and every part of a response
\* read so far.
Reads ==
    [op \in Operations, st \in Statuses, b \in Beginnings |->
        ReadOutcomes(op, Response(st, b, FALSE), Responses)]

\* The operation handing the request to the transport once more when the
\* transport has failed.
DoRetry ==
    /\ pc = "sent"
    /\ \/ /\ Len(invoked) < 2
          /\ response' = TransportFailure
          /\ invoked' = Append(invoked, Transport(client))
          /\ UNCHANGED <<pc, call, request, result>>
       \/ /\ Len(invoked) >= 2
          /\ response' = TransportFailure
          /\ result' = Finish(call.op, TransportFailure)
          /\ pc' = "done"
          /\ invoked' = invoked
          /\ call' = Returned(call)
          /\ request' = NoRequest
       \/ /\ \E resp \in Responses :
                /\ resp.err.kind = "nil"
                /\ IF ReadsBodyOf(call.op, resp.StatusCode)
                   THEN /\ response' = Headers(resp.StatusCode)
                        /\ result' = NoResult
                        /\ pc' = "got"
                   ELSE /\ response' = resp
                        /\ result' = Finish(call.op, resp)
                        /\ pc' = "done"
          /\ invoked' = invoked
          /\ call' = Returned(call)
          /\ request' = NoRequest
    /\ UNCHANGED <<client, glossary, vals, applied>>

\* c.client.Do returns: with an error, and the operation returns it; with a
\* response whose status lets the operation return without a read of the
\* body (the body the response carries stays unread); or with a response
\* whose body the operation goes on to read.
Do ==
    /\ pc = "sent"
    /\ \/ /\ response' = TransportFailure
          /\ result' = Finish(call.op, TransportFailure)
          /\ pc' = "done"
       \/ \E resp \in Responses :
            /\ resp.err.kind = "nil"
            /\ IF ReadsBodyOf(call.op, resp.StatusCode)
               THEN /\ response' = Headers(resp.StatusCode)
                    /\ result' = NoResult
                    /\ pc' = "got"
               ELSE /\ response' = resp
                    /\ result' = Finish(call.op, resp)
                    /\ pc' = "done"
    /\ call' = Returned(call)
    /\ request' = NoRequest
    /\ UNCHANGED <<client, glossary, vals, applied, invoked>>

\* One read of the body returns (json.Decoder.Decode, ioutil.ReadAll and
\* scanner.Scan block in resp.Body.Read): the operation has what it needs
\* and returns, or it reads again.
ReadBody ==
    /\ pc = "got"
    /\ \E r \in Reads[call.op, response.StatusCode, response.Body] :
        /\ response' = r.response
        /\ IF r.returns
           THEN result' = Finish(call.op, r.response) /\ pc' = "done"
           ELSE result' = NoResult /\ pc' = "got"
    /\ UNCHANGED <<client, glossary, call, request, vals, applied, invoked>>

\* The caller has the result; the client is ready for the next call.
Return ==
    /\ pc = "done"
    /\ pc' = "idle"
    /\ call' = NoCall
    /\ response' = NoResponse
    /\ result' = NoResult
    /\ invoked' = <<>>
    /\ UNCHANGED <<client, glossary, request, vals, applied>>

Next ==
    \/ TranslateMany
    \/ Translate
    \/ CreateGlossary
    \/ ListGlossaries
    \/ ListGlossary
    \/ ListGlossaryEntries
    \/ DeleteGlossary
    \/ Do
    \/ ReadBody
    \/ Return

Spec == Init /\ [][Next]_vars

\* The same with every read of a response body returning in the end (with
\* bytes, the end of the body or an error), so that an operation that has
\* its response gets to its return.
SpecLive == Spec /\ WF_vars(ReadBody)

(***************************************************************************)
(* The option loop of TranslateMany, one option at a time: the bag starts  *)
(* as TranslateMany seeds it and each step applies one more option.        *)
(***************************************************************************)
InitOptions ==
    /\ client = New("key-1", <<>>)
    /\ pc = "opts"
    /\ \E texts \in TextLists, targetLang \in Languages :
        /\ call = [op |-> "TranslateMany", texts |-> texts, targetLang |-> targetLang]
        /\ vals = SeedValues(texts, targetLang)
    /\ request = NoRequest
    /\ response = NoResponse
    /\ result = NoResult
    /\ applied = <<>>
    /\ invoked = <<>>
    /\ glossary = NoGlossary

ApplyNextOption ==
    /\ pc = "opts"
    /\ Len(applied) < MaxApplied
    /\ \E o \in OptionValues :
        /\ vals' = ApplyOption(o, vals)
        /\ applied' = Append(applied, o)
    /\ UNCHANGED <<client, glossary, pc, call, request, response, result, invoked>>

NextOptions == ApplyNextOption

SpecOptions == InitOptions /\ [][NextOptions]_vars

(***************************************************************************)
(* The glossary entry codec: CreateGlossary encodes an entry list into its *)
(* request, and ListGlossaryEntries decodes the same text served back as   *)
(* the body of a status-200 response.                                      *)
(***************************************************************************)
\* The field texts the entries are made of, as byte streams.
FieldTexts ==
    { <<>>, <<"hello">>, <<"welt", "\r">>, <<"x", "\t", "y">>, <<"x", "\n", "y">> }

CodecEntries == {GlossaryEntry(Concat(s), Concat(t)) : s, t \in FieldTexts}

CodecEntryLists == SeqsUpTo(CodecEntries, MaxEntries)

\* The bytes of a field string.
FieldBytes(str) == CHOOSE b \in FieldTexts : Concat(b) = str

RECURSIVE EntriesBytes(_)
\* The bytes of strings.Join(entriesTSV, "\n"), entry by entry.
EntriesBytes(entries) ==
    IF entries = <<>> THEN <<>>
    ELSE FieldBytes(Head(entries).Source) \o <<"\t">> \o FieldBytes(Head(entries).Target)
             \o (IF Tail(entries) = <<>> THEN <<>> ELSE <<"\n">> \o EntriesBytes(Tail(entries)))

InitCodec ==
    /\ client = New("key-1", <<>>)
    /\ pc = "entries"
    /\ \E entries \in CodecEntryLists : call = [op |-> "CreateGlossary", entries |-> entries]
    /\ request = NoRequest
    /\ response = NoResponse
    /\ result = NoResult
    /\ vals = EmptyValues
    /\ applied = <<>>
    /\ invoked = <<>>
    /\ glossary = NoGlossary

\* CreateGlossary encodes the entry list into its request and hands it to
\* the transport; the service has the glossary from then on: the list it
\* was created from and the bytes of its entries text.
EncodeEntries ==
    /\ pc = "entries"
    /\ request' = CreateGlossaryRequest(client, "terms", "en", "de", call.entries).req
    /\ invoked' = Append(invoked, Transport(client))
    /\ glossary' = [created |-> TRUE, entries |-> call.entries,
                    text |-> EntriesBytes(call.entries)]
    /\ pc' = "sent"
    /\ call' = [op |-> "CreateGlossary"]
    /\ UNCHANGED <<client, response, result, vals, applied>>

\* c.client.Do returns to CreateGlossary with status 201.
CreatedStatus ==
    /\ pc = "sent"
    /\ call.op = "CreateGlossary"
    /\ response' = Headers(201)
    /\ request' = NoRequest
    /\ pc' = "got"
    /\ UNCHANGED <<client, glossary, call, result, vals, applied, invoked>>

\* A read of the body returns to CreateGlossary: it decodes the glossary
\* and returns it.
CreatedBody ==
    /\ pc = "got"
    /\ call.op = "CreateGlossary"
    /\ \E r \in ReadOutcomes(call.op, response, {Response(201, <<GlossaryToken>>, FALSE)}) :
        /\ response' = r.response
        /\ IF r.returns
           THEN result' = CreateGlossaryResult(r.response) /\ pc' = "done"
           ELSE result' = NoResult /\ pc' = "got"
    /\ UNCHANGED <<client, glossary, call, request, vals, applied, invoked>>

\* The caller has the glossary and calls ListGlossaryEntries, which builds
\* its request and hands it to the transport.
RequestEntries ==
    /\ pc = "done"
    /\ call.op = "CreateGlossary"
    /\ \E id \in GlossaryIDs :
        /\ call' = [op |-> "ListGlossaryEntries", glossaryID |-> id]
        /\ request' = ListGlossaryEntriesRequest(client, id).req
    /\ invoked' = <<Transport(client)>>
    /\ response' = NoResponse
    /\ result' = NoResult
    /\ pc' = "sent"
    /\ UNCHANGED <<client, glossary, vals, applied>>

\* c.client.Do returns to ListGlossaryEntries with status 200.
EntriesStatus ==
    /\ pc = "sent"
    /\ call.op = "ListGlossaryEntries"
    /\ response' = Headers(200)
    /\ request' = NoRequest
    /\ pc' = "got"
    /\ UNCHANGED <<client, glossary, call, result, vals, applied, invoked>>

\* A read of the body, which is the entries text of the glossary, returns
\* to ListGlossaryEntries: the scanner loop takes the lines that have
\* arrived and the operation returns or reads again.
DecodeEntries ==
    /\ pc = "got"
    /\ call.op = "ListGlossaryEntries"
    /\ \E r \in ReadOutcomes(call.op, response, {Response(200, glossary.text, FALSE)}) :
        /\ response' = r.response
        /\ IF r.returns
           THEN result' = ListGlossaryEntriesResult(r.response) /\ pc' = "done"
           ELSE result' = NoResult /\ pc' = "got"
    /\ UNCHANGED <<client, glossary, call, request, vals, applied, invoked>>

NextCodec ==
    \/ EncodeEntries
    \/ CreatedStatus
    \/ CreatedBody
    \/ RequestEntries
    \/ EntriesStatus
    \/ DecodeEntries

SpecCodec == InitCodec /\ [][NextCodec]_vars

(***************************************************************************)
(* The option loop of New, one client option at a time: the client starts  *)
(* with the default transport and the V2 endpoints and each step applies   *)
(* one more option.                                                        *)
(***************************************************************************)
NewOptionValues ==
    {Opt("BaseURL", u) : u \in {"http://mock", ":bad", "https://api-free.deepl.com/v2"}}
        \cup {Opt("HTTPClient", t) : t \in {"mockClient", "otherClient"}}

InitNew ==
    /\ \E k \in AuthKeys : client = New(k, <<>>)
    /\ pc = "new"
    /\ call = NoCall
    /\ request = NoRequest
    /\ response = NoResponse
    /\ result = NoResult
    /\ vals = EmptyValues
    /\ applied = <<>>
    /\ invoked = <<>>
    /\ glossary = NoGlossary

ApplyNextClientOption ==
    /\ pc = "new"
    /\ Len(applied) < MaxNewOpts
    /\ \E o \in NewOptionValues :
        /\ client' = ApplyClientOption(o, client)
        /\ applied' = Append(applied, o)
    /\ UNCHANGED <<pc, call, request, response, result, vals, invoked, glossary>>

NextNew == ApplyNextClientOption

SpecNew == InitNew /\ [][NextNew]_vars

(***************************************************************************)
(* Several calls in progress on one client.  Every variable but the client *)
(* is a function of the call's slot.  A translate call seeds its bag,      *)
(* applies its options one at a time and sends; the steps of different     *)
(* calls interleave freely.                                                *)
(***************************************************************************)
Calls == 1..MaxCalls

ConcurrentClients ==
    {New("key-1", <<>>),
     New("key-2", <<Opt("BaseURL", "http://mock"), Opt("HTTPClient", "mockClient")>>)}

\* The arguments the concurrent calls are made with.
ConcurrentArgs ==
    { [op |-> "TranslateMany", texts |-> <<"Hello", "World">>, targetLang |-> "DE",
       opts |-> <<Opt("SourceLang", "EN"), Opt("ShowBilledChars", TRUE)>>],
      [op |-> "Translate", texts |-> <<"World">>, targetLang |-> "FR",
       opts |-> <<Opt("TagHandling", "xml")>>],
      [op |-> "DeleteGlossary", glossaryID |-> "g-1"],
      [op |-> "ListGlossaryEntries", glossaryID |-> "g-2"] }

ConcurrentResponses ==
    { TransportFailure,
      Response(200, TranslationsBody(<<Translation("EN", "Hallo Welt")>>), FALSE),
      Response(200, <<"hello", "\t", "hallo">>, FALSE),
      Response(204, <<>>, FALSE),
      Response(200, <<"hello", "\t", "hallo", "\n">>, TRUE) }

\* One bag for all calls, as if vals were a field of the client.
ValsOfClient(p) == 1

\* The bag of a call: vals is a local of the call.
ValsOf(p) == p

InitConcurrent ==
    /\ client \in ConcurrentClients
    /\ pc = [p \in Calls |-> "idle"]
    /\ call = [p \in Calls |-> NoCall]
    /\ request = [p \in Calls |-> NoRequest]
    /\ response = [p \in Calls |-> NoResponse]
    /\ result = [p \in Calls |-> NoResult]
    /\ vals = [p \in Calls |-> EmptyValues]
    /\ applied = [p \in Calls |-> <<>>]
    /\ invoked = [p \in Calls |-> <<>>]
    /\ glossary = NoGlossary

\* The request of a call is built: it is handed to the transport, or the
\* call returns the build error.
Handed(p, built) ==
    /\ IF built.err.kind # "nil"
       THEN /\ pc' = [pc EXCEPT ![p] = "done"]
            /\ result' = [result EXCEPT ![p] = BuildFailure(call'[p].op, built.err)]
            /\ UNCHANGED <<request, invoked>>
       ELSE /\ pc' = [pc EXCEPT ![p] = "sent"]
            /\ request' = [request EXCEPT ![p] = built.req]
            /\ invoked' = [invoked EXCEPT ![p] = Append(@, Transport(client))]
            /\ UNCHANGED result
    /\ UNCHANGED <<client, glossary, response>>

\* A translate call starts: its bag is made and seeded.
BeginTranslate(p) ==
    /\ pc[p] = "idle"
    /\ \E args \in ConcurrentArgs :
        /\ args.op \in {"TranslateMany", "Translate"}
        /\ call' = [call EXCEPT ![p] = args]
        /\ vals' = [vals EXCEPT ![ValsOf(p)] = SeedValues(args.texts, args.targetLang)]
    /\ pc' = [pc EXCEPT ![p] = "opts"]
    /\ UNCHANGED <<client, glossary, request, response, result, applied, invoked>>

\* One iteration of the option loop of a translate call.
ApplyCallOption(p) ==
    /\ pc[p] = "opts"
    /\ Len(applied[p]) < Len(call[p].opts)
    /\ LET o == call[p].opts[Len(applied[p]) + 1] IN
        /\ vals' = [vals EXCEPT ![ValsOf(p)] = ApplyOption(o, @)]
        /\ applied' = [applied EXCEPT ![p] = Append(@, o)]
    /\ UNCHANGED <<client, glossary, pc, call, request, response, result, invoked>>

\* The option loop of a translate call is over: the bag is encoded into the
\* request.
SendTranslate(p) ==
    /\ pc[p] = "opts"
    /\ Len(applied[p]) = Len(call[p].opts)
    /\ Handed(p, PostForm(client, vals[ValsOf(p)]))
    /\ vals' = [vals EXCEPT ![ValsOf(p)] = EmptyValues]
    /\ applied' = [applied EXCEPT ![p] = <<>>]
    /\ UNCHANGED call

\* A glossary call builds its request and sends it.
SendGlossary(p) ==
    /\ pc[p] = "idle"
    /\ \E args \in ConcurrentArgs :
        /\ args.op \in {"DeleteGlossary", "ListGlossaryEntries"}
        /\ call' = [call EXCEPT ![p] = args]
        /\ Handed(p, IF args.op = "DeleteGlossary"
                      THEN DeleteGlossaryRequest(client, args.glossaryID)
                      ELSE ListGlossaryEntriesRequest(client, args.glossaryID))
    /\ UNCHANGED <<vals, applied>>

\* c.client.Do returns to a call: with an error, and the call returns it;
\* with a response whose status lets the call return without a read of the
\* body; or with a response whose body the call goes on to read.
DoReturns(p) ==
    /\ pc[p] = "sent"
    /\ \E resp \in ConcurrentResponses :
        IF resp.err.kind = "nil" /\ ReadsBodyOf(call[p].op, resp.StatusCode)
        THEN /\ response' = [response EXCEPT ![p] = Headers(resp.StatusCode)]
             /\ pc' = [pc EXCEPT ![p] = "got"]
             /\ UNCHANGED result
        ELSE /\ response' = [response EXCEPT ![p] = resp]
             /\ result' = [result EXCEPT ![p] = Finish(call[p].op, resp)]
             /\ pc' = [pc EXCEPT ![p] = "done"]
    /\ request' = [request EXCEPT ![p] = NoRequest]
    /\ UNCHANGED <<client, glossary, call, vals, applied, invoked>>

\* One read of the body returns to a call: the call has what it needs and
\* returns, or it reads again.
ReadsBody(p) ==
    /\ pc[p] = "got"
    /\ \E r \in ReadOutcomes(call[p].op, response[p], ConcurrentResponses) :
        /\ response' = [response EXCEPT ![p] = r.response]
        /\ IF r.returns
           THEN /\ result' = [result EXCEPT ![p] = Finish(call[p].op, r.response)]
                /\ pc' = [pc EXCEPT ![p] = "done"]
           ELSE UNCHANGED <<result, pc>>
    /\ UNCHANGED <<client, glossary, call, request, vals, applied, invoked>>

\* The caller of a call has its result.
CallReturns(p) ==
    /\ pc[p] = "done"
    /\ pc' = [pc EXCEPT ![p] = "idle"]
    /\ call' = [call EXCEPT ![p] = NoCall]
    /\ response' = [response EXCEPT ![p] = NoResponse]
    /\ result' = [result EXCEPT ![p] = NoResult]
    /\ invoked' = [invoked EXCEPT ![p] = <<>>]
    /\ UNCHANGED <<client, glossary, request, vals, applied>>

NextConcurrent ==
    \E p \in Calls :
        \/ BeginTranslate(p)
        \/ ApplyCallOption(p)
        \/ SendTranslate(p)
        \/ SendGlossary(p)
        \/ DoReturns(p)
        \/ ReadsBody(p)
        \/ CallReturns(p)

SpecConcurrent == InitConcurrent /\ [][NextConcurrent]_vars

(***************************************************************************)
(* Properties.                                                             *)
(***************************************************************************)
TranslateOps == {"TranslateMany", "Translate"}
GlossaryOps ==
    {"CreateGlossary", "ListGlossaries", "ListGlossary", "ListGlossaryEntries",
     "DeleteGlossary"}

\* The form the receiving side parses from the request in flight.
SentForm == ParseForm(request.body)

\* A translate request is in flight.
TranslateSent == pc = "sent" /\ call.op \in TranslateOps

\* The operation has returned after the transport answered with a status.
Answered == pc = "done" /\ response.err.kind = "nil"

\* C1: every Translate and TranslateMany request of a client built with key K
\* carries auth_key = K in its form body, and target_lang equal to the
\* requested target language.
C1_AuthKeyInBody ==
    TranslateSent =>
        /\ Values(SentForm, "auth_key") = <<client.authKey>>
        /\ Values(SentForm, "target_lang") = <<call.targetLang>>

\* C2: whatever options have been applied, in whatever order, the 'text'
\* values of the encoded bag are the input texts (same length, same order,
\* duplicates kept) and target_lang is the requested language.
C2_TextsPreserved ==
    pc = "opts" =>
        LET form == ParseForm(Encode(vals)) IN
        /\ Values(form, "text") = call.texts
        /\ Values(form, "target_lang") = <<call.targetLang>>

\* C2 witness: two options applied to a bag seeded with a duplicated text.
C2_Witness ==
    /\ pc = "opts"
    /\ Len(applied) = 2
    /\ applied[1].opt # applied[2].opt
    /\ call.texts = <<"Hello", "Hello">>
    /\ Values(ParseForm(Encode(vals)), "text") = <<"Hello", "Hello">>

\* The wire parameter an option targets (the table of recognized options).
WireParam(o) ==
    CASE o.opt = "SourceLang" -> "source_lang"
      [] o.opt = "ShowBilledChars" -> "show_billed_characters"
      [] o.opt = "SplitSentences" -> "split_sentences"
      [] o.opt = "PreserveFormatting" -> "preserve_formatting"
      [] o.opt = "Formality" -> "formality"
      [] o.opt = "TagHandling" -> "tag_handling"
      [] o.opt = "IgnoreTags" -> "ignore_tags"
      [] o.opt = "GlossaryID" -> "glossary_id"
      [] o.opt = "Context" -> "context"

\* The encoding of an option's argument (the table of recognized options).
WireValue(o) ==
    CASE o.opt \in {"ShowBilledChars", "PreserveFormatting"} ->
            (IF o.arg THEN "1" ELSE "0")
      [] o.opt = "SplitSentences" ->
            (IF o.arg \in {"0", "1", "nonewlines"} THEN o.arg ELSE "1")
      [] o.opt = "TagHandling" -> (IF o.arg = "default" THEN "" ELSE o.arg)
      [] o.opt = "IgnoreTags" ->
            (CASE o.arg = <<>> -> ""
               [] o.arg = <<"a", "b">> -> "a,b")
      [] OTHER -> o.arg

\* The positions of the applied options that target a parameter.
Targeting(param) == {i \in 1..Len(applied) : WireParam(applied[i]) = param}

LastTargeting(param) ==
    CHOOSE i \in Targeting(param) : \A j \in Targeting(param) : j <= i

\* C3: each wire parameter some applied option targets has exactly one value,
\* the encoding of the last applied option that targets it; applying any
\* option a second time leaves the bag as the first application left it.
C3_LastOptionWins ==
    pc = "opts" =>
        /\ \A i \in 1..Len(applied) :
              Values(vals, WireParam(applied[i]))
                  = <<WireValue(applied[LastTargeting(WireParam(applied[i]))])>>
        /\ \A o \in OptionValues :
              ApplyOption(o, ApplyOption(o, vals)) = ApplyOption(o, vals)

\* C3 witness: a boolean option applied as true, then as false.
C3_Witness ==
    /\ pc = "opts"
    /\ applied = <<Opt("ShowBilledChars", TRUE), Opt("ShowBilledChars", FALSE)>>
    /\ Values(vals, "show_billed_characters") = <<"0">>

\* Status 200 with the given body, readable.
OK200(body) ==
    /\ Answered
    /\ response.StatusCode = 200
    /\ ~response.BodyErr
    /\ response.Body = body

\* C4: on status 200 with a well-formed body whose translations list is empty
\* or absent, Translate returns an error that is no typed Error, an empty
\* text and an empty language.
C4_EmptyResult ==
    (call.op = "Translate" /\ (OK200(TranslationsBody(<<>>)) \/ OK200(<<"{", "}">>))) =>
        /\ result.err.kind # "nil"
        /\ result.text = ""
        /\ result.lang = ""
        /\ ~IsDeeplError(result.err)

\* C4 witness: Translate has returned on {"translations":[]}.
C4_Witness ==
    /\ call.op = "Translate"
    /\ OK200(TranslationsBody(<<>>))
    /\ result.err.kind = "errorString"

\* C5: on status 200 with a translations list of at least one element,
\* Translate returns no error and the text and detected source language of
\* the first element.
C5_FirstTranslation ==
    \A l \in TranslationLists :
        (call.op = "Translate" /\ l # <<>> /\ OK200(TranslationsBody(l))) =>
            /\ result.err.kind = "nil"
            /\ result.text = l[1].Text
            /\ result.lang = l[1].DetectedSourceLanguage

\* C5 witness: Translate has returned on a list of two different elements.
C5_Witness ==
    /\ call.op = "Translate"
    /\ OK200(TranslationsBody(<<Translation("FR", "Hallo"), Translation("EN", "Hallo Welt")>>))
    /\ result.text = "Hallo"
    /\ result.lang = "FR"

\* C6: on status 200 with a decodable body, TranslateMany returns the
\* translations list as received: same length, same order, whatever the
\* number of input texts.
C6_ListAsReceived ==
    \A l \in TranslationLists :
        (call.op = "TranslateMany" /\ OK200(TranslationsBody(l))) =>
            /\ result.err.kind = "nil"
            /\ result.value = l

\* C6 witness: one input text, two translations received, in an order that
\* sorting would change and with a length the input does not have.
C6_Witness ==
    /\ call.op = "TranslateMany"
    /\ Len(call.texts) = 1
    /\ OK200(TranslationsBody(<<Translation("FR", "Hallo"), Translation("EN", "Hallo Welt")>>))
    /\ Len(result.value) = 2
    /\ result.value[1].DetectedSourceLanguage = "FR"

ErrorStatuses == {400, 401, 403, 404, 413, 429, 456, 503}

\* C7: for each of the statuses 400, 401, 403, 404, 413, 429, 456 and 503,
\* TranslateMany returns a typed Error with that code, and errors.As recovers
\* a typed Error with that code from what Translate returns.
C7_ErrorCode ==
    (Answered /\ response.StatusCode \in ErrorStatuses) =>
        /\ call.op = "TranslateMany" =>
              (result.err.kind = "Error" /\ result.err.Code = response.StatusCode)
        /\ call.op = "Translate" =>
              /\ IsDeeplError(result.err)
              /\ ErrorsAs(result.err).Code = response.StatusCode

\* C7 witness: Translate has returned a wrapped typed Error of code 429.
C7_Witness ==
    /\ Answered
    /\ call.op = "Translate"
    /\ response.StatusCode = 429
    /\ result.err.kind = "wrapError"
    /\ ErrorsAs(result.err).Code = 429

\* C8: a typed Error of code 456 renders as the fixed quota message, whatever
\* its body.
C8_QuotaMessage ==
    (pc = "done" /\ IsDeeplError(result.err) /\ ErrorsAs(result.err).Code = 456) =>
        ErrorText(ErrorsAs(result.err))
            = "Quota exceeded. The character limit has been reached."

\* C8 witness: a typed Error of code 456 with a non-empty body.
C8_Witness ==
    /\ pc = "done"
    /\ IsDeeplError(result.err)
    /\ ErrorsAs(result.err).Code = 456
    /\ ErrorsAs(result.err).Body = <<" ", "Quota", " ", "Exceeded", "\n">>

\* The text of a body without its leading and trailing whitespace.
Trimmed(b) ==
    LET text == {i \in 1..Len(b) : b[i] \notin {" ", "\t", "\n", "\r"}} IN
    IF text = {} THEN ""
    ELSE Concat(SubSeq(b, CHOOSE i \in text : \A j \in text : i <= j,
                          CHOOSE i \in text : \A j \in text : j <= i))

\* A typed Error of a code other than 456 has been returned.
OtherError ==
    pc = "done" /\ IsDeeplError(result.err) /\ ErrorsAs(result.err).Code # 456

\* C9 as stated: a typed Error of a code other than 456 renders as the
\* standard status text alone when it has no body, and as the status text
\* with the trimmed body in parentheses when it has one.
C9_StatusTextOnly ==
    OtherError =>
        LET e == ErrorsAs(result.err) IN
        ErrorText(e) = IF e.Body = <<>>
                       THEN StatusText(e.Code)
                       ELSE StatusText(e.Code) \o " (" \o Trimmed(e.Body) \o ")"

\* C9 amended: a typed Error of a code other than 456 renders as
\* "unexpected HTTP status " followed by the standard status text when its
\* body is empty, and followed by the status text and the trimmed body in
\* parentheses when its body is not empty.
C9_PrefixedStatusText ==
    OtherError =>
        LET e == ErrorsAs(result.err) IN
        ErrorText(e) = IF e.Body = <<>>
                       THEN "unexpected HTTP status " \o StatusText(e.Code)
                       ELSE "unexpected HTTP status " \o StatusText(e.Code)
                                \o " (" \o Trimmed(e.Body) \o ")"

\* C9 witness: a typed Error of code 404 whose body has whitespace around it.
C9_Witness ==
    /\ OtherError
    /\ ErrorsAs(result.err).Code = 404
    /\ ErrorsAs(result.err).Body = <<" ", "Quota", " ", "Exceeded", "\n">>
    /\ ErrorText(ErrorsAs(result.err)) = "unexpected HTTP status Not Found (Quota Exceeded)"

\* C10: on a non-success response the typed Error of TranslateMany and of
\* Translate has an empty body, and the typed Error of a glossary operation
\* has the complete raw response body.
C10_ErrorBody ==
    (Answered /\ response.StatusCode # SuccessStatus(call.op)) =>
        /\ call.op \in TranslateOps =>
              (IsDeeplError(result.err) /\ ErrorsAs(result.err).Body = <<>>)
        /\ call.op \in GlossaryOps =>
              /\ ~response.BodyErr => IsDeeplError(result.err)
              /\ IsDeeplError(result.err) => ErrorsAs(result.err).Body = response.Body

\* C10 witness: a glossary operation has returned a typed Error with the
\* body of the response, whitespace included.
C10_Witness ==
    /\ Answered
    /\ call.op = "DeleteGlossary"
    /\ response.StatusCode = 404
    /\ response.Body = <<" ", "Quota", " ", "Exceeded", "\n">>
    /\ IsDeeplError(result.err)
    /\ ErrorsAs(result.err).Body = response.Body

\* The field bytes of the entries the glossary was created from.
CodecFields ==
    {FieldBytes(glossary.entries[i].Source) : i \in 1..Len(glossary.entries)}
        \cup {FieldBytes(glossary.entries[i].Target) : i \in 1..Len(glossary.entries)}

\* No field of the list contains a tab or a newline character.
NoSeparators == \A f \in CodecFields : \A i \in 1..Len(f) : f[i] \notin {"\t", "\n"}

\* No target of the list ends in a carriage return.
NoTargetEndsCR ==
    \A i \in 1..Len(glossary.entries) :
        LET t == FieldBytes(glossary.entries[i].Target) IN
        t = <<>> \/ t[Len(t)] # "\r"

\* ListGlossaryEntries has returned in a round trip of the codec.
Decoded200 ==
    pc = "done" /\ call.op = "ListGlossaryEntries" /\ glossary.created

\* The text of the glossary is the text of the 'entries' parameter of the
\* request of CreateGlossary.
EntriesSent ==
    (pc = "sent" /\ call.op = "CreateGlossary" /\ glossary.created) =>
        Values(ParseForm(request.body), "entries") = <<Concat(glossary.text)>>

\* Decoding the text of the glossary gives back the entry list.
RoundTrip ==
    /\ response.Body = glossary.text
    /\ result.err.kind = "nil"
    /\ result.value = glossary.entries

\* C11 as stated: for every entry list whose sources and targets contain no
\* tab and no newline character, decoding with ListGlossaryEntries the text
\* CreateGlossary encodes gives the original list.
C11_RoundTrip == EntriesSent /\ ((Decoded200 /\ NoSeparators) => RoundTrip)

\* C11 amended: for every entry list whose sources and targets contain no
\* tab and no newline character and whose targets do not end in a carriage
\* return, decoding with ListGlossaryEntries the text CreateGlossary encodes
\* gives the original list: same length, same order, same field values.
C11_RoundTripNoCR ==
    EntriesSent /\ ((Decoded200 /\ NoSeparators /\ NoTargetEndsCR) => RoundTrip)

\* C11 witness: a list of two entries, one with an empty source and one with
\* an empty target and a source that ends in a carriage return, has come
\* back from the codec.
C11_Witness ==
    /\ Decoded200
    /\ glossary.entries = <<GlossaryEntry("", "hello"), GlossaryEntry("welt\r", "")>>
    /\ response.Body = <<"\t", "hello", "\n", "welt", "\r", "\t">>
    /\ result.value = glossary.entries

\* ListGlossaryEntries has returned on a readable status-200 response.
EntriesAnswered ==
    /\ Answered
    /\ call.op = "ListGlossaryEntries"
    /\ response.StatusCode = 200
    /\ ~response.BodyErr

\* The non-empty lines of a body: the maximal runs without a newline, as
\* pairs of first and last position.
LinesOf(b) ==
    {<<i, j>> \in (1..Len(b)) \X (1..Len(b)) :
        /\ i <= j
        /\ \A k \in i..j : b[k] # "\n"
        /\ i = 1 \/ b[i - 1] = "\n"
        /\ j = Len(b) \/ b[j + 1] = "\n"}

\* The number of tabs of a line of a body.
Tabs(b, line) == Cardinality({k \in line[1]..line[2] : b[k] = "\t"})

\* C12: when the body of a status-200 glossary-entries response has a line
\* with no tab or with more than one tab, ListGlossaryEntries returns an
\* error and no entry at all, the well-formed lines before it included.
C12_MalformedLineFatal ==
    (EntriesAnswered /\ \E l \in LinesOf(response.Body) : Tabs(response.Body, l) # 1) =>
        /\ result.err.kind # "nil"
        /\ result.value = <<>>

\* C12 witness: a well-formed line followed by a line without a tab.
C12_Witness ==
    /\ EntriesAnswered
    /\ response.Body = <<"hello", "\t", "hallo", "\n", "world">>
    /\ result.err.kind = "errorString"
    /\ result.value = <<>>

\* A body has an empty line: a newline at its start or right after a newline.
HasEmptyLine(b) == \E i \in 1..Len(b) : b[i] = "\n" /\ (i = 1 \/ b[i - 1] = "\n")

\* C13: an empty line in the glossary-entries response gives neither an
\* entry nor a decode error: when every non-empty line of the body has
\* exactly one tab, ListGlossaryEntries returns no error and one entry per
\* non-empty line, whether or not the body has empty lines.
C13_EmptyLineSkipped ==
    (/\ EntriesAnswered
     /\ HasEmptyLine(response.Body)
     /\ \A l \in LinesOf(response.Body) : Tabs(response.Body, l) = 1) =>
        /\ result.err.kind = "nil"
        /\ Len(result.value) = Cardinality(LinesOf(response.Body))

\* The positions of the applied client options of one kind.
AppliedOf(kind) == {i \in 1..Len(applied) : applied[i].opt = kind}

\* The argument of the last applied client option of one kind, or the
\* default when there is none.
LastArg(kind, default) ==
    IF AppliedOf(kind) = {} THEN default
    ELSE applied[CHOOSE i \in AppliedOf(kind) : \A j \in AppliedOf(kind) : j <= i].arg

\* C14: whatever client options New has applied, the base URL is the
\* argument of the last BaseURL option, or https://api.deepl.com/v2 when
\* there is none, the translate endpoint is the base URL followed by
\* /translate and the glossary endpoint the base URL followed by
\* /glossaries; the client is the one New returns for these options.
C14_EndpointsFollowBase ==
    pc = "new" =>
        /\ client.baseURL = LastArg("BaseURL", "https://api.deepl.com/v2")
        /\ client.translateURL = client.baseURL \o "/translate"
        /\ client.glossaryURL = client.baseURL \o "/glossaries"
        /\ client = New(client.authKey, applied)

\* C14 witness: two BaseURL options with an HTTPClient option between them.
C14_Witness ==
    /\ pc = "new"
    /\ applied = <<Opt("BaseURL", "http://mock"), Opt("HTTPClient", "mockClient"),
                   Opt("BaseURL", "https://api-free.deepl.com/v2")>>
    /\ client.glossaryURL = "https://api-free.deepl.com/v2/glossaries"

\* The transport an option list asks for: the argument of its last
\* HTTPClient option, the default transport when it has none.
AskedTransport(opts) ==
    LET given == {i \in 1..Len(opts) : opts[i].opt = "HTTPClient"} IN
    IF given = {} THEN "http.DefaultClient"
    ELSE opts[CHOOSE i \in given : \A j \in given : j <= i].arg

\* Every client New builds, with the transport its option list asks for.
BuiltClients ==
    {<<New(k, opts), AskedTransport(opts)>> :
        k \in AuthKeys, opts \in SeqsUpTo(ClientOptionValues, MaxClientOpts)}

\* C15: the transport of the client is the argument of the last HTTPClient
\* option of every option list New builds the client from (the default
\* transport when the list has none), Client.HTTPClient() returns it, and
\* every operation in progress or returned has handed its request to that
\* transport and to no other.
C15_TransportUsed ==
    /\ \A b \in BuiltClients : client = b[1] => ClientHTTPClient(client) = b[2]
    /\ \A i \in 1..Len(invoked) : invoked[i] = ClientHTTPClient(client)
    /\ pc = "sent" => invoked # <<>>

\* C15 witness: a client built with HTTPClient(otherClient) and then
\* HTTPClient(mockClient) has a glossary request in flight, handed to
\* mockClient.
C15_Witness ==
    /\ client = New("key-1", <<Opt("HTTPClient", "otherClient"), Opt("HTTPClient", "mockClient")>>)
    /\ ClientHTTPClient(client) = "mockClient"
    /\ pc = "sent"
    /\ call.op = "DeleteGlossary"
    /\ invoked = <<"mockClient">>

\* The wire value of a split_sentences argument, as the claim tabulates it.
SplitWire(s) ==
    CASE s = "0" -> "0"
      [] s = "1" -> "1"
      [] s = "nonewlines" -> "nonewlines"
      [] OTHER -> "1"

\* C16: for every applied SplitSentences option, Value and String of its
\* argument are "0" for "0", "1" for "1", "nonewlines" for "nonewlines" and
\* "1" for every other argument, the empty string included, hence one of
\* these three values; the split_sentences parameter is that value for the
\* last such option applied.
C16_SplitSentenceWire ==
    pc = "opts" =>
        \A i \in 1..Len(applied) :
            applied[i].opt = "SplitSentences" =>
                /\ SplitSentenceValue(applied[i].arg) = SplitWire(applied[i].arg)
                /\ SplitSentenceString(applied[i].arg) = SplitWire(applied[i].arg)
                /\ SplitSentenceValue(applied[i].arg) \in {"0", "1", "nonewlines"}
                /\ i = LastTargeting("split_sentences") =>
                      Values(vals, "split_sentences") = <<SplitWire(applied[i].arg)>>

\* C16 witness: SplitSentences applied with the empty string and then with
\* an unrecognized value.
C16_Witness ==
    /\ pc = "opts"
    /\ applied = <<Opt("SplitSentences", ""), Opt("SplitSentences", "2")>>
    /\ Values(vals, "split_sentences") = <<"1">>
    /\ SplitSentenceString("") = "1"

\* C17: when the last tag-handling option applied is TagHandling of the
\* default strategy, the tag_handling parameter has the empty string as its
\* only value, in the bag and on the wire, whatever an earlier option had
\* set; when it is TagHandling of xml or of html the parameter is "xml" or
\* "html"; String of a strategy is its own name.
C17_DefaultTagHandlingClears ==
    (pc = "opts" /\ Targeting("tag_handling") # {}) =>
        LET h == applied[LastTargeting("tag_handling")].arg IN
        /\ h = "default" =>
              /\ Values(vals, "tag_handling") = <<"">>
              /\ Values(ParseForm(Encode(vals)), "tag_handling") = <<"">>
              /\ TagHandlingStrategyString(h) = "default"
        /\ h \in {"xml", "html"} =>
              /\ Values(vals, "tag_handling") = <<h>>
              /\ TagHandlingStrategyString(h) = h

\* C17 witness: TagHandling(html) applied, then TagHandling(default).
C17_Witness ==
    /\ pc = "opts"
    /\ applied = <<Opt("TagHandling", "html"), Opt("TagHandling", "default")>>
    /\ Get(vals, "tag_handling") = ""

\* The operation has returned no result value.
NoValue ==
    IF call.op = "Translate"
    THEN result.text = "" /\ result.lang = ""
    ELSE result.value = <<>>

\* C18: an operation that returns on a status other than its one success
\* status (201 for CreateGlossary, 204 for DeleteGlossary, 200 for the
\* others) returns an error and no result value, other 2xx statuses
\* included; on its success status DeleteGlossary returns no error, and
\* CreateGlossary and ListGlossaries return no error on a body they decode.
C18_OneSuccessStatus ==
    Answered =>
        /\ response.StatusCode # SuccessStatus(call.op) =>
              (result.err.kind # "nil" /\ NoValue)
        /\ (call.op = "DeleteGlossary" /\ response.StatusCode = 204) =>
              result.err.kind = "nil"
        /\ (/\ call.op = "CreateGlossary"
            /\ response.StatusCode = 201
            /\ response.Body = <<GlossaryToken>>) =>
              (result.err.kind = "nil" /\ Len(result.value) = 1)
        /\ (/\ call.op = "ListGlossaries"
            /\ response.StatusCode = 200
            /\ response.Body = ListBody("glossaries", <<GlossaryToken>>)) =>
              (result.err.kind = "nil" /\ Len(result.value) = 1)

\* C18 witness: CreateGlossary has returned an error and no glossary on
\* status 200 with a body that holds a glossary.
C18_Witness ==
    /\ Answered
    /\ call.op = "CreateGlossary"
    /\ response.StatusCode = 200
    /\ response.Body = <<GlossaryToken>>
    /\ result.err.kind # "nil"
    /\ result.value = <<>>

\* C19: a glossary operation that returns on a status other than its
\* success status returns a typed Error whose Code is that status, whether
\* or not the body of the response can be read.
C19_TypedErrorKeepsCode ==
    (Answered /\ call.op \in GlossaryOps /\ response.StatusCode # SuccessStatus(call.op)) =>
        /\ IsDeeplError(result.err)
        /\ ErrorsAs(result.err).Code = response.StatusCode

\* The state of the call in progress has the transport invoked at most
\* once: once while the request is in flight and after the transport has
\* returned, never when the request could not be built; a call that has
\* returned after a failure has returned an error.
InvokedOnce ==
    /\ Len(invoked) <= 1
    /\ pc = "idle" => invoked = <<>>
    /\ pc = "sent" => (Len(invoked) = 1 /\ request # NoRequest /\ response = NoResponse)
    /\ pc = "got" => (Len(invoked) = 1 /\ response.err.kind = "nil" /\ result = NoResult)
    /\ pc = "done" =>
          /\ Len(invoked) = (IF response = NoResponse THEN 0 ELSE 1)
          /\ response = NoResponse => result.err.kind # "nil"
          /\ response = TransportFailure => result.err.kind # "nil"
          /\ (Answered /\ response.StatusCode # SuccessStatus(call.op)) =>
                result.err.kind # "nil"
          /\ (/\ Answered
              /\ call.op \in JSONOps
              /\ response.StatusCode = SuccessStatus(call.op)
              /\ response.Body = <<"{">>) =>
                result.err.kind # "nil"

\* C20: in every execution of an operation the transport is invoked at most
\* once, and exactly once when the request was built; when the transport
\* returns an error the operation returns it in the same step, when it
\* returns a response the operation returns at once or after reads of the
\* body, in no case with a further invocation; a transport failure, a non-success status or
\* a decode failure is returned to the caller as an error; and an operation
\* that has its response always gets to its return.
C20_NoRetry ==
    /\ []InvokedOnce
    /\ [][pc = "sent" => (pc' \in {"got", "done"} /\ invoked' = invoked
                             /\ response' # NoResponse)]_vars
    /\ [][pc = "got" => (/\ pc' \in {"got", "done"}
                         /\ invoked' = invoked
                         /\ response'.StatusCode = response.StatusCode
                         /\ IsPrefix(response.Body, response'.Body))]_vars
    /\ [][Len(invoked') > Len(invoked) => (pc = "idle" /\ pc' = "sent")]_vars
    /\ (pc = "got") ~> (pc = "done")

\* C20 witness: an operation has returned the error of a failed transport
\* after one invocation.
C20_Witness ==
    /\ pc = "done"
    /\ response = TransportFailure
    /\ invoked = <<"mockClient">>
    /\ result.err.kind = "wrapError"
    /\ result.err.err = TransportFailure.err

\* The bytes of a body that are no whitespace.
JSONText(b) == SelectSeq(b, LAMBDA c : c \notin {" ", "\t", "\n", "\r"})

\* The well-formed JSON documents among the bodies.
JSONDocuments ==
    {TranslationsBody(l) : l \in TranslationLists}
        \cup { <<"{", "}">>, <<GlossaryToken>>, ListBody("glossaries", <<GlossaryToken>>) }

\* The body is a well-formed JSON document.
WellFormed(b) == JSONText(b) \in JSONDocuments

\* The body starts with a complete JSON value.
StartsWithValue(b) ==
    \E k \in 1..Len(JSONText(b)) : SubSeq(JSONText(b), 1, k) \in JSONDocuments

\* TranslateMany has returned.
ManyDone == pc = "done" /\ call.op = "TranslateMany"

\* A transport failure gives an error that is no typed Error, and a status
\* other than 200 gives the typed Error of that status whatever the body.
FailureAndStatusFirst ==
    /\ (ManyDone /\ response = TransportFailure) =>
          (result.err.kind # "nil" /\ ~IsDeeplError(result.err))
    /\ (ManyDone /\ Answered /\ response.StatusCode # 200) =>
          (result.err.kind = "Error" /\ result.err.Code = response.StatusCode)

\* C21 as stated: a transport failure gives an error that is no typed Error;
\* a non-200 response gives the typed Error even when its body is
\* well-formed translation JSON; a 200 response whose body is malformed or
\* empty gives a decode error that is no typed Error, never a nil error.
C21_MalformedBodyFails ==
    /\ FailureAndStatusFirst
    /\ (/\ ManyDone
        /\ Answered
        /\ response.StatusCode = 200
        /\ ~WellFormed(response.Body)) =>
          (result.err.kind # "nil" /\ ~IsDeeplError(result.err))

\* C21 amended: a transport failure gives an error that is no typed Error;
\* a non-200 response gives the typed Error even when its body is
\* well-formed translation JSON; a 200 response whose body is empty or
\* does not start with a complete JSON value, a read that fails before the
\* value is complete included, gives a decode error that is no typed Error;
\* a 200 response whose body starts with a complete translations document
\* is decoded as that document, whatever follows it, a failing read
\* included.
C21_FirstValueDecides ==
    /\ FailureAndStatusFirst
    /\ (/\ ManyDone
        /\ Answered
        /\ response.StatusCode = 200
        /\ ~StartsWithValue(response.Body)) =>
          (result.err.kind = "wrapError" /\ ~IsDeeplError(result.err) /\ result.value = <<>>)
    /\ \A l \in TranslationLists :
          (/\ ManyDone
           /\ Answered
           /\ response.StatusCode = 200
           /\ \E k \in 1..Len(response.Body) :
                 SubSeq(response.Body, 1, k) = TranslationsBody(l)) =>
              (result.err.kind = "nil" /\ result.value = l)

\* C21 witness: TranslateMany has returned the typed Error of status 503 on
\* a body that is a well-formed translations document.
C21_Witness ==
    /\ ManyDone
    /\ Answered
    /\ response.StatusCode = 503
    /\ response.Body = TranslationsBody(<<Translation("FR", "Hallo")>>)
    /\ result.err = DeeplError(503, <<>>)

\* C22: the request Translate hands to the transport is the one
\* TranslateMany hands to it for the one-element list of the same text, the
\* same language and the same options (a POST to the translate endpoint
\* with the same headers and a form body with exactly one 'text' value), and
\* for every transport response Translate returns an error exactly when
\* TranslateMany returns an error or an empty list for that response.
C22_TranslateIsTranslateManyOfOne ==
    /\ (pc = "sent" /\ call.op = "TranslateMany") =>
          request = TranslateManyRequest(client, call.texts, call.targetLang, call.opts).req
    /\ (pc = "sent" /\ call.op = "Translate") =>
          /\ Len(call.texts) = 1
          /\ request = TranslateManyRequest(client, <<call.texts[1]>>, call.targetLang,
                                            call.opts).req
          /\ request.method = "POST"
          /\ request.url = client.translateURL
          /\ Values(SentForm, "text") = call.texts
    /\ (pc = "done" /\ call.op = "TranslateMany" /\ response # NoResponse) =>
          result = TranslateManyResult(response)
    /\ (pc = "done" /\ call.op = "Translate" /\ response # NoResponse) =>
          LET many == TranslateManyResult(response) IN
          /\ result.err.kind # "nil" <=> (many.err.kind # "nil" \/ many.value = <<>>)
          /\ result.err.kind = "nil" =>
                (result.text = many.value[1].Text
                    /\ result.lang = many.value[1].DetectedSourceLanguage)
    /\ (pc = "done" /\ call.op \in TranslateOps /\ response = NoResponse) =>
          result.err.kind # "nil"

\* C22 witness: Translate has a request with one text and an option in
\* flight.
C22_Witness ==
    /\ pc = "sent"
    /\ call.op = "Translate"
    /\ call.opts = <<Opt("ShowBilledChars", TRUE)>>
    /\ Values(SentForm, "text") = <<"World">>
    /\ Values(SentForm, "show_billed_characters") = <<"1">>

\* The request a call with the given arguments hands to the transport when
\* it is the only call on the client.
RequestAlone(c, args) ==
    CASE args.op = "TranslateMany" ->
            TranslateManyRequest(c, args.texts, args.targetLang, args.opts).req
      [] args.op = "Translate" ->
            TranslateRequest(c, args.texts[1], args.targetLang, args.opts).req
      [] args.op = "DeleteGlossary" -> DeleteGlossaryRequest(c, args.glossaryID).req
      [] args.op = "ListGlossaryEntries" ->
            ListGlossaryEntriesRequest(c, args.glossaryID).req

\* The request and the result of call p come from its own arguments, the
\* client and its own response: its bag holds its own texts and the
\* parameters of its own options only, its request is the one it sends when
\* it is alone, and its result is the one its response gives.
OwnDataOnly(p) ==
    /\ pc[p] = "opts" =>
          /\ Values(vals[p], "text") = call[p].texts
          /\ Values(vals[p], "target_lang") = <<call[p].targetLang>>
          /\ DOMAIN vals[p] \subseteq
                {"text", "target_lang"}
                    \cup {WireParam(call[p].opts[i]) : i \in 1..Len(applied[p])}
    /\ pc[p] = "sent" =>
          /\ request[p] = RequestAlone(client, call[p])
          /\ call[p].op \in TranslateOps =>
                /\ Values(ParseForm(request[p].body), "text") = call[p].texts
                /\ DOMAIN ParseForm(request[p].body) \subseteq
                      {"text", "target_lang"}
                          \cup {WireParam(call[p].opts[i]) : i \in 1..Len(call[p].opts)}
          /\ invoked[p] = <<ClientHTTPClient(client)>>
    /\ pc[p] = "got" =>
          (result[p] = NoResult /\ invoked[p] = <<ClientHTTPClient(client)>>)
    /\ (pc[p] = "done" /\ response[p] # NoResponse) =>
          result[p] = Finish(call[p].op, response[p])

\* C23: whatever calls are in progress on one client and however their
\* steps interleave, no step changes the client (auth key, base URL,
\* translate URL, glossary URL, transport), and the request and the result
\* of every call come from its own arguments and its own response only: no
\* text and no option parameter of another call is in its request.
C23_CallsIndependent ==
    /\ [](\A p \in Calls : OwnDataOnly(p))
    /\ [](client \in ConcurrentClients)
    /\ [][client' = client]_vars

\* C23 witness: the first call has its request in flight, with its own two
\* texts, while the second call, with another text and another option, is
\* in its option loop.
C23_Witness ==
    /\ pc[1] = "sent"
    /\ call[1].op = "TranslateMany"
    /\ Values(ParseForm(request[1].body), "text") = <<"Hello", "World">>
    /\ pc[2] = "opts"
    /\ call[2].op = "Translate"
    /\ applied[2] = <<Opt("TagHandling", "xml")>>
    /\ Values(vals[2], "text") = <<"World">>

====
